---- MODULE Spec2Model ----
(***************************************************************************)
(* The topology map of keep-ui (TopologyMap), its ServiceModal and its     *)
(* DependencyManager, as a state machine.  One action is one run of a      *)
(* handler on the UI thread (an event handler, a React effect with the     *)
(* state updates it queues, a timer callback, the completion of an awaited *)
(* request).  React state lives in the variables; `handler` and `effects`  *)
(* record which handler ran last and what it did to the outside world, in  *)
(* order, so that properties of one run can be stated.                     *)
(*                                                                         *)
(* JavaScript `undefined` in a string field is the string "undefined";     *)
(* `null` for a service is NullService.                                    *)
(***************************************************************************)
EXTENDS Integers, Sequences, FiniteSets, TLC

VARIABLES
    topologyData,            \* useTopology().topologyData
    nodes,                   \* useState<TopologyNode[]>
    edges,                   \* useState<Edge[]>
    previousNodesIds,        \* useRef<Set<string>>
    selectedObjectId,        \* TopologySearchContext
    selectedApplicationIds,  \* TopologySearchContext
    isVisible,               \* prop
    initiallyFitted,         \* useState(false)
    timers,                  \* setTimeout callbacks not yet run
    isServiceModalOpen,      \* useState(false)
    isDependencyModalOpen,   \* useState(false)
    selectedService,         \* useState<TopologyService | null>
    selectedServiceStale,    \* the object in selectedService is no node's data any more
    formData,                \* ServiceModal: useState<Partial<TopologyService>>
    smLoading,               \* ServiceModal: isLoading
    smRequest,               \* ServiceModal: the awaited createService/updateService call
    selectedDependencies,    \* DependencyManager: useState<string[]>
    dmLoading,               \* DependencyManager: isLoading
    dmCalls,                 \* DependencyManager.handleSubmit: calls its loops have yet to make
    dmInFlight,              \* DependencyManager.handleSubmit: calls made and not yet settled
    dmClosure,               \* DependencyManager.handleSubmit: the render's arrays it closed over
    backendDeps,             \* the backend's dependencies, as (source id, target id)
    mounted,                 \* TopologyMap and its modals are mounted
    handler,                 \* the handler that ran last, and the id it was given
    effects                  \* what that run did, in order

mapVars == <<topologyData, nodes, edges, previousNodesIds, selectedObjectId,
             selectedApplicationIds, isVisible, initiallyFitted, timers>>
shellVars == <<isServiceModalOpen, isDependencyModalOpen, selectedService,
               selectedServiceStale>>
smVars == <<formData, smLoading, smRequest>>
dmVars == <<selectedDependencies, dmLoading, dmCalls, dmInFlight, dmClosure, backendDeps>>
vars == <<mounted, mapVars, shellVars, smVars, dmVars, handler, effects>>

(***************************************************************************)
(* Bounds of the model.                                                    *)
(***************************************************************************)
\* a node is dragged to one of the positions 0..MaxDrag
MaxDrag == 1
\* the fetched records carry one of the contents 0..MaxVersion
MaxVersion == 1
\* at most MaxTimers setTimeout callbacks wait at a time
MaxTimers == 1

(***************************************************************************)
(* Sequence helpers (Array.prototype.includes / filter / find).            *)
(***************************************************************************)
Includes(s, x) == \E i \in DOMAIN s : s[i] = x

Range(s) == {s[i] : i \in DOMAIN s}

RECURSIVE FilterIn(_, _)
\* s.filter(x => keep has x)
FilterIn(s, keep) ==
    IF s = <<>> THEN <<>>
    ELSE IF Head(s) \in keep THEN <<Head(s)>> \o FilterIn(Tail(s), keep)
    ELSE FilterIn(Tail(s), keep)

RECURSIVE FilterOut(_, _)
\* s.filter(x => !drop has x)
FilterOut(s, drop) ==
    IF s = <<>> THEN <<>>
    ELSE IF Head(s) \in drop THEN FilterOut(Tail(s), drop)
    ELSE <<Head(s)>> \o FilterOut(Tail(s), drop)

RECURSIVE SetToSeq(_)
SetToSeq(S) ==
    IF S = {} THEN <<>>
    ELSE LET m == CHOOSE x \in S : \A y \in S : x <= y
         IN <<m>> \o SetToSeq(S \ {m})

(***************************************************************************)
(* The data the backend may return.                                        *)
(***************************************************************************)
ServiceNumbers == 1..3

ServiceId(i) == CASE i = 1 -> "1" [] i = 2 -> "2" [] OTHER -> "3"

ServiceKey(i) == CASE i = 1 -> "s1" [] i = 2 -> "s2" [] OTHER -> "s3"

\* the service key (node id) of the service with id `id`
KeyOfId(id) == CASE id = "1" -> "s1" [] id = "2" -> "s2" [] OTHER -> "s3"

DisplayName(v) == CASE v = 0 -> "name-v0" [] v = 1 -> "name-v1" [] OTHER -> "name-v2"

NullService ==
    [id |-> "null", service |-> "undefined", display_name |-> "undefined",
     environment |-> "undefined", is_editable |-> FALSE, members |-> <<>>]

\* a TopologyService record: service 2 is managed by a provider, service 3
\* carries no environment
ServiceRecord(i, v) ==
    [id |-> ServiceId(i), service |-> ServiceKey(i), display_name |-> DisplayName(v),
     environment |-> IF i = 3 THEN "" ELSE "staging",
     is_editable |-> (i # 2), members |-> <<>>]

\* the dependency records the backend may hold, as (source id, target id);
\* the same pair may be declared twice
DepList == << <<"1", "2">>, <<"2", "3">>, <<"1", "2">> >>

RECURSIVE DepsOf(_, _)
\* the records of DepList picked by `pick` whose source is among `ids`
DepsOf(pick, ids) ==
    IF pick = <<>> THEN <<>>
    ELSE LET d == DepList[Head(pick)]
         IN (IF d[1] \in ids THEN <<[source |-> d[1], target |-> d[2]]>> ELSE <<>>)
            \o DepsOf(Tail(pick), ids)

Snapshot(S, v, D) ==
    [loaded |-> TRUE,
     services |-> [i \in 1..Cardinality(S) |-> ServiceRecord(SetToSeq(S)[i], v)],
     dependencies |-> DepsOf(SetToSeq(D), {ServiceId(i) : i \in S})]

\* the service sets and the dependency declarations the fetches return
ServiceSets == {{}, {1, 2}, {1, 3}, {1, 2, 3}}

DepPicks == {{}, {2}, {1, 2}, {1, 3}}

Snapshots ==
    {Snapshot(S, v, D) : S \in ServiceSets, v \in 0..MaxVersion, D \in DepPicks}

\* topologyData before the first fetch completes (undefined)
NoData == [loaded |-> FALSE, services |-> <<>>, dependencies |-> <<>>]

\* useTopologyApplications().applications
applications ==
    << [id |-> "app1", name |-> "checkout", services |-> <<"s1", "s2">>],
       [id |-> "app2", name |-> "billing", services |-> <<"s2", "s3">>] >>

ApplicationIds == {applications[i].id : i \in DOMAIN applications}

\* applicationMap.get(id) is defined
applicationMapHas(id) == id \in ApplicationIds

applicationMapGet(id) ==
    applications[CHOOSE i \in DOMAIN applications : applications[i].id = id]

(***************************************************************************)
(* Graph Builder and Layout Engine Adapter.                                *)
(***************************************************************************)
NodeIdSet(nds) == {nds[i].id : i \in DOMAIN nds}

\* reactFlowInstanceRef.current?.getNode(id) is defined
HasNode(nds, id) == id \in NodeIdSet(nds)

ApplicationNode(app, data) ==
    [id |-> app.id, type |-> "application", position |-> 0,
     hidden |-> FALSE, selected |-> FALSE,
     data |-> [id |-> app.id, service |-> "undefined", display_name |-> "undefined",
               environment |-> "undefined", is_editable |-> FALSE,
               members |-> FilterIn(app.services,
                                    {data.services[i].service : i \in DOMAIN data.services})]]

ServiceNodeOf(svc) ==
    [id |-> svc.service, type |-> "service", position |-> 0,
     hidden |-> FALSE, selected |-> FALSE, data |-> svc]

RECURSIVE BuildEdges(_, _)
\* one edge per (source, target); a pair declared again is ignored
BuildEdges(deps, seen) ==
    IF deps = <<>> THEN <<>>
    ELSE LET s == KeyOfId(Head(deps).source)
             t == KeyOfId(Head(deps).target)
         IN IF <<s, t>> \in seen THEN BuildEdges(Tail(deps), seen)
            ELSE <<[source |-> s, target |-> t, hidden |-> FALSE]>>
                 \o BuildEdges(Tail(deps), seen \cup {<<s, t>>})

getNodesAndEdgesFromTopologyData(data) ==
    [nodes |-> [i \in DOMAIN applications |-> ApplicationNode(applications[i], data)]
               \o [i \in DOMAIN data.services |-> ServiceNodeOf(data.services[i])],
     edges |-> BuildEdges(data.dependencies, {})]

\* every node gets a position of its own
getLayoutedElements(nds, eds) ==
    [nodes |-> [i \in DOMAIN nds |-> [nds[i] EXCEPT !.position = i]],
     edges |-> eds]

areSetsEqual(A, B) == A = B

(***************************************************************************)
(* TopologyMap: the reconciler.                                            *)
(***************************************************************************)
\* newNodes.find((nn) => nn.id === id)
FindNode(nds, id) == nds[CHOOSE i \in DOMAIN nds : nds[i].id = id]

\* setNodes((prevNodes) => prevNodes.map(...)): the new node, at the old position
KeepPositions(prevNodes, newNodes) ==
    [i \in DOMAIN prevNodes |->
        IF HasNode(newNodes, prevNodes[i].id)
        THEN [FindNode(newNodes, prevNodes[i].id) EXCEPT !.position = prevNodes[i].position]
        ELSE prevNodes[i]]

\* the effect never storing the id set it has built
createAndSetLayoutedNodesAndEdgesStaleIds(prevNodes, prevEdges, prevIds, data) ==
    LET built == getNodesAndEdgesFromTopologyData(data)
        layoutedElements == getLayoutedElements(built.nodes, built.edges)
    IN [nodes |-> layoutedElements.nodes, edges |-> layoutedElements.edges,
        ids |-> prevIds, calls |-> <<"setNodes", "setEdges">>]

\* the effect leaving the edges alone while the node ids stay the same
createAndSetLayoutedNodesAndEdgesKeepsEdges(prevNodes, prevEdges, prevIds, data) ==
    LET built == getNodesAndEdgesFromTopologyData(data)
        same == prevIds # {} /\ areSetsEqual(prevIds, NodeIdSet(built.nodes))
        layoutedElements == getLayoutedElements(built.nodes, built.edges)
    IN [nodes |-> layoutedElements.nodes,
        edges |-> IF same THEN prevEdges ELSE layoutedElements.edges,
        ids |-> NodeIdSet(built.nodes), calls |-> <<"setNodes", "setEdges">>]

\* the effect: the node state, the edge state and the reference set it leaves
createAndSetLayoutedNodesAndEdges(prevNodes, prevEdges, prevIds, data) ==
    LET built == getNodesAndEdgesFromTopologyData(data)
        newNodes == built.nodes
        newEdges == built.edges
        same == prevIds # {} /\ areSetsEqual(prevIds, NodeIdSet(newNodes))
        \* the branch's updates, queued first
        edges1 == IF same THEN newEdges ELSE prevEdges
        nodes1 == IF same THEN KeepPositions(prevNodes, newNodes) ELSE prevNodes
        ids1 == IF same THEN prevIds ELSE NodeIdSet(newNodes)
        \* the updates after the branch, which run in both cases
        layoutedElements == getLayoutedElements(newNodes, newEdges)
        nodes2 == layoutedElements.nodes
        edges2 == layoutedElements.edges
    IN [nodes |-> nodes2, edges |-> edges2, ids |-> ids1,
        calls |-> (IF same THEN <<"setEdges", "setNodes">> ELSE <<>>)
                  \o <<"setNodes", "setEdges">>]

(***************************************************************************)
(* TopologyMap: selection and viewport.                                    *)
(***************************************************************************)
NoSelection == ""

highlightNodes(nds, nodeIds) ==
    [i \in DOMAIN nds |-> [nds[i] EXCEPT !.selected = Includes(nodeIds, nds[i].id)]]

\* the timer fitViewToServices sets: the nodes found now, fitted later
fitViewToServices(nds, serviceIds) ==
    [origin |-> "fitViewToServices", nodes |-> FilterIn(serviceIds, NodeIdSet(nds))]

FallbackTimer == [origin |-> "fallbackFitView", nodes |-> <<>>]

\* the selection effect clearing the highlight when nothing matches
SelectionEffectClearsOnMiss(sel, visible, nds) ==
    IF sel = NoSelection
    THEN [nodes |-> nds, timers |-> <<>>, selected |-> sel, calls |-> <<>>]
    ELSE LET serviceIds == IF ~visible THEN <<>>
                           ELSE IF HasNode(nds, sel) THEN <<sel>>
                           ELSE IF applicationMapHas(sel) THEN applicationMapGet(sel).services
                           ELSE <<>>
         IN [nodes |-> highlightNodes(nds, serviceIds),
             timers |-> <<fitViewToServices(nds, serviceIds)>>,
             selected |-> NoSelection,
             calls |-> <<"setNodes", "setTimeout", "setSelectedObjectId">>]

\* the selection effect, run with the pending id `sel`
SelectionEffect(sel, visible, nds) ==
    IF ~visible \/ sel = NoSelection
    THEN [nodes |-> nds, timers |-> <<>>, selected |-> sel, calls |-> <<>>]
    ELSE IF HasNode(nds, sel)
    THEN [nodes |-> highlightNodes(nds, <<sel>>),
          timers |-> <<fitViewToServices(nds, <<sel>>)>>,
          selected |-> NoSelection,
          calls |-> <<"setNodes", "setTimeout", "setSelectedObjectId">>]
    ELSE IF ~applicationMapHas(sel)
    THEN [nodes |-> nds, timers |-> <<>>, selected |-> sel, calls |-> <<>>]
    ELSE LET serviceIds == applicationMapGet(sel).services
         IN [nodes |-> highlightNodes(nds, serviceIds),
             timers |-> <<fitViewToServices(nds, serviceIds)>>,
             selected |-> NoSelection,
             calls |-> <<"setNodes", "setTimeout", "setSelectedObjectId">>]

\* the ids of the services of the selected applications
selectedServiceNodesIds(appIds) ==
    UNION {Range(applications[i].services) :
              i \in {j \in DOMAIN applications : applications[j].id \in appIds}}

\* the filter with its empty case leaving the flags as they are
watchSelectedApplicationsKeepsHidden(appIds, nds, eds) ==
    IF appIds = {}
    THEN [nodes |-> nds, edges |-> eds, calls |-> <<"setNodes", "setEdges">>]
    ELSE LET U == selectedServiceNodesIds(appIds)
         IN [nodes |-> [i \in DOMAIN nds |->
                          [nds[i] EXCEPT !.hidden =
                              (nds[i].type = "service" /\ nds[i].id \notin U)]],
             edges |-> [i \in DOMAIN eds |->
                          [eds[i] EXCEPT !.hidden =
                              ~(eds[i].source \in U /\ eds[i].target \in U)]],
             calls |-> <<"setNodes", "setEdges", "fitView">>]

\* the filter hiding every node outside the selected applications, of any type
watchSelectedApplicationsHidesAll(appIds, nds, eds) ==
    IF appIds = {}
    THEN [nodes |-> [i \in DOMAIN nds |-> [nds[i] EXCEPT !.hidden = FALSE]],
          edges |-> [i \in DOMAIN eds |-> [eds[i] EXCEPT !.hidden = FALSE]],
          calls |-> <<"setNodes", "setEdges">>]
    ELSE LET U == selectedServiceNodesIds(appIds)
         IN [nodes |-> [i \in DOMAIN nds |->
                          [nds[i] EXCEPT !.hidden = (nds[i].id \notin U)]],
             edges |-> [i \in DOMAIN eds |->
                          [eds[i] EXCEPT !.hidden =
                              ~(eds[i].source \in U /\ eds[i].target \in U)]],
             calls |-> <<"setNodes", "setEdges", "fitView">>]

\* the filter effect
watchSelectedApplications(appIds, nds, eds) ==
    IF appIds = {}
    THEN [nodes |-> [i \in DOMAIN nds |-> [nds[i] EXCEPT !.hidden = FALSE]],
          edges |-> [i \in DOMAIN eds |-> [eds[i] EXCEPT !.hidden = FALSE]],
          calls |-> <<"setNodes", "setEdges">>]
    ELSE LET U == selectedServiceNodesIds(appIds)
         IN [nodes |-> [i \in DOMAIN nds |->
                          [nds[i] EXCEPT !.hidden =
                              (nds[i].type = "service" /\ nds[i].id \notin U)]],
             edges |-> [i \in DOMAIN eds |->
                          [eds[i] EXCEPT !.hidden =
                              ~(eds[i].source \in U /\ eds[i].target \in U)]],
             calls |-> <<"setNodes", "setEdges", "fitView">>]

(***************************************************************************)
(* What the map passes to its modals.                                      *)
(***************************************************************************)
RECURSIVE existingDependencies(_, _)
\* deps.filter((dep) => dep.source === service.id).map((dep) => dep.target)
existingDependencies(deps, svc) ==
    IF deps = <<>> THEN <<>>
    ELSE (IF Head(deps).source = svc.id THEN <<Head(deps).target>> ELSE <<>>)
         \o existingDependencies(Tail(deps), svc)

\* DependencyManager is mounted while a service is selected; each render of
\* the map hands it a new existingDependencies array, and its effect copies
\* the array into selectedDependencies
DependenciesAfterRender(data, svc) ==
    IF svc = NullService THEN <<>> ELSE existingDependencies(data.dependencies, svc)

DefaultFormData ==
    [service |-> "", display_name |-> "", description |-> "", team |-> "",
     email |-> "", slack |-> "", environment |-> "production"]

NoRequest == [op |-> "none", id |-> "", data |-> DefaultFormData]

Ran(name, id) == [name |-> name, id |-> id]

\* no handleSubmit of DependencyManager is running
NoClosure == [existing |-> <<>>, selected |-> <<>>]

(***************************************************************************)
(* The state after the first render and its effects.                       *)
(***************************************************************************)
Init ==
    /\ topologyData = NoData
    /\ nodes = <<>>
    /\ edges = <<>>
    /\ previousNodesIds = {}
    /\ selectedObjectId = NoSelection
    /\ selectedApplicationIds = {}
    /\ isVisible \in BOOLEAN
    \* fallbackFitView has run if the map is visible
    /\ initiallyFitted = isVisible
    /\ timers = IF isVisible THEN <<FallbackTimer>> ELSE <<>>
    /\ isServiceModalOpen = FALSE
    /\ isDependencyModalOpen = FALSE
    /\ selectedService = NullService
    /\ selectedServiceStale = FALSE
    /\ formData = DefaultFormData
    /\ smLoading = FALSE
    /\ smRequest = NoRequest
    /\ selectedDependencies = <<>>
    /\ dmLoading = FALSE
    /\ dmCalls = <<>>
    /\ dmInFlight = {}
    /\ dmClosure = NoClosure
    /\ backendDeps = {}
    /\ mounted = TRUE
    /\ handler = Ran("mount", "")
    /\ effects = (IF isVisible THEN <<"setTimeout">> ELSE <<>>) \o <<"setNodes", "setEdges">>

(***************************************************************************)
(* TopologyMap: its handlers.                                              *)
(***************************************************************************)
\* topologyData changes to `data`: createAndSetLayoutedNodesAndEdges runs
Refresh(data) ==
    LET r == createAndSetLayoutedNodesAndEdges(nodes, edges, previousNodesIds, data)
    IN /\ topologyData' = data
       /\ backendDeps' = {<<data.dependencies[i].source, data.dependencies[i].target>> :
                             i \in DOMAIN data.dependencies}
       /\ nodes' = r.nodes
       /\ edges' = r.edges
       /\ previousNodesIds' = r.ids
       /\ selectedServiceStale' = (selectedService # NullService)
       /\ selectedDependencies' = DependenciesAfterRender(data, selectedService)
       /\ handler' = Ran("createAndSetLayoutedNodesAndEdges", "")
       /\ effects' = r.calls
       /\ UNCHANGED <<mounted, selectedObjectId, selectedApplicationIds, isVisible,
                      initiallyFitted, timers, isServiceModalOpen, isDependencyModalOpen,
                      selectedService, smVars, dmLoading, dmCalls, dmInFlight, dmClosure>>

\* onNodesChange with a position change: the user drags node i to p
DragNode(i, p) ==
    /\ i \in DOMAIN nodes
    /\ nodes[i].position # p
    /\ nodes' = [nodes EXCEPT ![i].position = p]
    /\ selectedDependencies' = DependenciesAfterRender(topologyData, selectedService)
    /\ handler' = Ran("onNodesChange", nodes[i].id)
    /\ effects' = <<"setNodes">>
    /\ UNCHANGED <<mounted, topologyData, edges, previousNodesIds, selectedObjectId,
                   selectedApplicationIds, isVisible, initiallyFitted, timers, shellVars,
                   smVars, dmLoading, dmCalls, dmInFlight, dmClosure, backendDeps>>

\* setSelectedObjectId(id), from the search box or from the search context,
\* and the selection effect that follows it
SelectObject(id) ==
    LET r == SelectionEffect(id, isVisible, nodes)
    IN /\ id # selectedObjectId
       /\ id # NoSelection
       /\ Len(timers) + Len(r.timers) <= MaxTimers
       /\ nodes' = r.nodes
       /\ timers' = timers \o r.timers
       /\ selectedObjectId' = r.selected
       /\ selectedDependencies' = DependenciesAfterRender(topologyData, selectedService)
       /\ handler' = Ran("selectionEffect", id)
       /\ effects' = r.calls
       /\ UNCHANGED <<mounted, topologyData, edges, previousNodesIds,
                      selectedApplicationIds, isVisible, initiallyFitted, shellVars, smVars,
                      dmLoading, dmCalls, dmInFlight, dmClosure, backendDeps>>

\* the isVisible prop changes: fallbackFitView and the selection effect run
SetVisible(b) ==
    LET fit == b /\ ~initiallyFitted
        r == SelectionEffect(selectedObjectId, b, nodes)
        set == (IF fit THEN <<FallbackTimer>> ELSE <<>>) \o r.timers
    IN /\ b # isVisible
       /\ Len(timers) + Len(set) <= MaxTimers
       /\ isVisible' = b
       /\ initiallyFitted' = (initiallyFitted \/ fit)
       /\ nodes' = r.nodes
       /\ timers' = timers \o set
       /\ selectedObjectId' = r.selected
       /\ selectedDependencies' = DependenciesAfterRender(topologyData, selectedService)
       /\ handler' = Ran("selectionEffect", selectedObjectId)
       /\ effects' = (IF fit THEN <<"setTimeout">> ELSE <<>>) \o r.calls
       /\ UNCHANGED <<mounted, topologyData, edges, previousNodesIds,
                      selectedApplicationIds, shellVars, smVars, dmLoading, dmCalls,
                      dmInFlight, dmClosure, backendDeps>>

\* a setTimeout callback runs: reactFlowInstanceRef.current?.fitView(...)
TimerFire ==
    /\ timers # <<>>
    /\ timers' = Tail(timers)
    /\ handler' = Ran(Head(timers).origin, "")
    /\ effects' = <<"fitView">>
    /\ UNCHANGED <<mounted, topologyData, nodes, edges, previousNodesIds, selectedObjectId,
                   selectedApplicationIds, isVisible, initiallyFitted, shellVars, smVars,
                   dmVars>>

\* the application filter changes: watchSelectedApplications runs
SetSelectedApplications(appIds) ==
    LET r == watchSelectedApplications(appIds, nodes, edges)
    IN /\ appIds # selectedApplicationIds
       /\ selectedApplicationIds' = appIds
       /\ nodes' = r.nodes
       /\ edges' = r.edges
       /\ selectedDependencies' = DependenciesAfterRender(topologyData, selectedService)
       /\ handler' = Ran("watchSelectedApplications", "")
       /\ effects' = r.calls
       /\ UNCHANGED <<mounted, topologyData, previousNodesIds, selectedObjectId, isVisible,
                      initiallyFitted, timers, shellVars, smVars, dmLoading, dmCalls,
                      dmInFlight, dmClosure, backendDeps>>

\* the ids setSelectedObjectId may be given: a service, an application, or
\* an id the map knows nothing of
ObjectIds == {ServiceKey(i) : i \in ServiceNumbers} \cup ApplicationIds \cup {"ghost"}

(***************************************************************************)
(* TopologyMap: the handlers that open the modals.                         *)
(***************************************************************************)
\* ServiceModal's effect on [service]: a new, non-null service fills the form
FormFromService(svc) ==
    [service |-> svc.service, display_name |-> svc.display_name,
     description |-> "undefined", team |-> "undefined", email |-> "undefined",
     slack |-> "undefined",
     environment |-> IF svc.environment \in {"", "undefined"} THEN "production"
                     ELSE svc.environment]

FormAfterRender(prevSvc, stale, svc, fd) ==
    IF svc # NullService /\ (svc # prevSvc \/ stale) THEN FormFromService(svc) ELSE fd

\* handleEditService without its is_editable check
handleEditServiceUnchecked(svc, cur) ==
    [service |-> svc, open |-> TRUE,
     calls |-> <<"setSelectedService", "setIsServiceModalOpen">>]

\* handleEditService(service), from the shell state `cur`
handleEditService(svc, cur) ==
    IF ~svc.is_editable
    THEN [service |-> cur.service, open |-> cur.open, calls |-> <<"showErrorToast">>]
    ELSE [service |-> svc, open |-> TRUE,
          calls |-> <<"setSelectedService", "setIsServiceModalOpen">>]

\* handleManageDependencies(service)
handleManageDependencies(svc, cur) ==
    [service |-> svc, open |-> TRUE,
     calls |-> <<"setSelectedService", "setIsDependencyModalOpen">>]

\* the shell state after a handler set selectedService to `svc`
SelectService(svc) ==
    /\ selectedService' = svc
    /\ selectedServiceStale' = FALSE
    /\ formData' = FormAfterRender(selectedService, selectedServiceStale, svc, formData)
    /\ selectedDependencies' = DependenciesAfterRender(topologyData, svc)

\* the "Create Service" button: handleCreateService
CreateServiceClick ==
    /\ selectedService' = NullService
    /\ selectedServiceStale' = FALSE
    /\ isServiceModalOpen' = TRUE
    \* DependencyManager unmounts, and its state with it
    /\ selectedDependencies' = <<>>
    /\ dmLoading' = FALSE
    /\ handler' = Ran("handleCreateService", "")
    /\ effects' = <<"setSelectedService", "setIsServiceModalOpen">>
    /\ UNCHANGED <<mounted, mapVars, isDependencyModalOpen, smVars, dmCalls, dmInFlight,
                   dmClosure, backendDeps>>

\* a click on node i: React Flow selects it (onNodesChange), then onNodeClick
ClickNode(i) ==
    LET cur == [service |-> selectedService, open |-> isServiceModalOpen]
        r == IF nodes[i].data.is_editable THEN handleEditService(nodes[i].data, cur)
             ELSE [service |-> cur.service, open |-> cur.open, calls |-> <<>>]
    IN /\ i \in DOMAIN nodes
       /\ nodes' = [j \in DOMAIN nodes |-> [nodes[j] EXCEPT !.selected = (j = i)]]
       /\ IF Includes(r.calls, "setSelectedService")
          THEN SelectService(r.service)
          ELSE UNCHANGED <<selectedService, selectedServiceStale, formData,
                           selectedDependencies>>
       /\ isServiceModalOpen' = r.open
       /\ handler' = Ran("onNodeClick", nodes[i].id)
       /\ effects' = <<"setNodes">> \o r.calls
       /\ UNCHANGED <<mounted, topologyData, edges, previousNodesIds, selectedObjectId,
                      selectedApplicationIds, isVisible, initiallyFitted, timers,
                      isDependencyModalOpen, smLoading, smRequest, dmLoading, dmCalls,
                      dmInFlight, dmClosure, backendDeps>>

\* "Edit Service" in the menu of the selected node i
ContextEdit(i) ==
    LET cur == [service |-> selectedService, open |-> isServiceModalOpen]
        r == handleEditService(nodes[i].data, cur)
    IN /\ i \in DOMAIN nodes
       /\ nodes[i].selected
       /\ IF Includes(r.calls, "setSelectedService")
          THEN SelectService(r.service)
          ELSE UNCHANGED <<selectedService, selectedServiceStale, formData,
                           selectedDependencies>>
       /\ isServiceModalOpen' = r.open
       /\ handler' = Ran("handleEditService", nodes[i].id)
       /\ effects' = r.calls
       /\ UNCHANGED <<mounted, mapVars, isDependencyModalOpen, smLoading, smRequest,
                      dmLoading, dmCalls, dmInFlight, dmClosure, backendDeps>>

\* "Manage Dependencies" in the menu of the selected node i
ContextManageDependencies(i) ==
    LET cur == [service |-> selectedService, open |-> isDependencyModalOpen]
        r == handleManageDependencies(nodes[i].data, cur)
    IN /\ i \in DOMAIN nodes
       /\ nodes[i].selected
       /\ IF Includes(r.calls, "setSelectedService")
          THEN SelectService(r.service)
          ELSE UNCHANGED <<selectedService, selectedServiceStale, formData,
                           selectedDependencies>>
       /\ isDependencyModalOpen' = r.open
       /\ handler' = Ran("handleManageDependencies", nodes[i].id)
       /\ effects' = r.calls
       /\ UNCHANGED <<mounted, mapVars, isServiceModalOpen, smLoading, smRequest, dmLoading,
                      dmCalls, dmInFlight, dmClosure, backendDeps>>

(***************************************************************************)
(* ServiceModal.                                                           *)
(***************************************************************************)
\* the inputs the user types into, and what is typed
TypedFields == {"service", "display_name"}

TypedValues == {"", "typed"}

\* an input's onChange; the service input is disabled for an existing service
TypeField(f, v) ==
    /\ isServiceModalOpen
    /\ f = "service" => selectedService = NullService
    /\ formData[f] # v
    /\ formData' = [formData EXCEPT ![f] = v]
    /\ handler' = Ran("onChange", f)
    /\ effects' = <<"setFormData">>
    /\ UNCHANGED <<mounted, mapVars, shellVars, smLoading, smRequest, dmVars>>

\* the submit button enabled whatever isLoading is
SubmitAlwaysEnabled(loading) == FALSE

\* <Button type="submit" disabled={isLoading}>, in both modals
SubmitDisabled(loading) == loading

Blank(x) == x \in {"", "undefined"}

\* a form that submits whatever its inputs hold (noValidate)
RequiredFilledUnchecked(fd, svc) == TRUE

\* the form's required inputs hold a value (a disabled input is not checked)
RequiredFilled(fd, svc) ==
    /\ svc = NullService => ~Blank(fd.service)
    /\ ~Blank(fd.display_name)
    /\ ~Blank(fd.environment)

\* handleSubmit creating whatever the modal was given
SubmitRequestAlwaysCreates(svc, fd) ==
    [op |-> "createService", id |-> "", data |-> fd]

\* the request handleSubmit awaits
SubmitRequest(svc, fd) ==
    IF svc # NullService
    THEN [op |-> "updateService", id |-> svc.id, data |-> fd]
    ELSE [op |-> "createService", id |-> "", data |-> fd]

\* handleSubmit up to its await
ServiceModalSubmit ==
    /\ isServiceModalOpen
    /\ ~SubmitDisabled(smLoading)
    /\ RequiredFilled(formData, selectedService)
    /\ smLoading' = TRUE
    /\ smRequest' = SubmitRequest(selectedService, formData)
    /\ handler' = Ran("ServiceModal.handleSubmit", selectedService.id)
    /\ effects' = <<"setIsLoading(true)", smRequest'.op>>
    /\ UNCHANGED <<mounted, mapVars, shellVars, formData, dmVars>>

\* the submit button pressed over a form with an empty required input: the
\* browser reports the input and fires no submit event, handleSubmit does not run
ServiceModalSubmitBlocked ==
    /\ isServiceModalOpen
    /\ ~SubmitDisabled(smLoading)
    /\ ~RequiredFilled(formData, selectedService)
    /\ handler' = Ran("ServiceModal.reportValidity", selectedService.id)
    /\ effects' = <<"reportValidity">>
    /\ UNCHANGED <<mounted, mapVars, shellVars, smVars, dmVars>>

\* what handleSubmit does once the request has resolved
SubmitResolved(req) ==
    <<"showSuccessToast", "onSuccess", "refetchTopology", "onClose", "setIsLoading(false)">>

\* handleSubmit closing the modal in its finally block
SubmitRejectedCloses(req) ==
    <<"console.error", "showErrorToast", "onClose", "setIsLoading(false)">>

\* what handleSubmit does once the request has rejected
SubmitRejected(req) ==
    <<"console.error", "showErrorToast", "setIsLoading(false)">>

\* the request resolves: the rest of the try block, then finally
ServiceModalResolve ==
    /\ smRequest # NoRequest
    /\ smRequest' = NoRequest
    /\ smLoading' = (smLoading /\ ~Includes(SubmitResolved(smRequest), "setIsLoading(false)"))
    /\ isServiceModalOpen' = (isServiceModalOpen /\ ~Includes(SubmitResolved(smRequest), "onClose"))
    /\ selectedDependencies' = DependenciesAfterRender(topologyData, selectedService)
    /\ handler' = Ran("ServiceModal.resolved", smRequest.op)
    /\ effects' = SubmitResolved(smRequest)
    /\ UNCHANGED <<mounted, mapVars, isDependencyModalOpen, selectedService,
                   selectedServiceStale, formData, dmLoading, dmCalls, dmInFlight,
                   dmClosure, backendDeps>>

\* the request rejects: catch, then finally
ServiceModalReject ==
    /\ smRequest # NoRequest
    /\ smRequest' = NoRequest
    /\ smLoading' = (smLoading /\ ~Includes(SubmitRejected(smRequest), "setIsLoading(false)"))
    /\ isServiceModalOpen' = (isServiceModalOpen /\ ~Includes(SubmitRejected(smRequest), "onClose"))
    /\ handler' = Ran("ServiceModal.rejected", smRequest.op)
    /\ effects' = SubmitRejected(smRequest)
    /\ UNCHANGED <<mounted, mapVars, isDependencyModalOpen, selectedService,
                   selectedServiceStale, formData, dmVars>>

\* Cancel, or the dialog's onOpenChange: onClose
ServiceModalClose ==
    /\ isServiceModalOpen
    /\ isServiceModalOpen' = FALSE
    /\ selectedDependencies' = DependenciesAfterRender(topologyData, selectedService)
    /\ handler' = Ran("ServiceModal.onClose", "")
    /\ effects' = <<"setIsServiceModalOpen">>
    /\ UNCHANGED <<mounted, mapVars, isDependencyModalOpen, selectedService,
                   selectedServiceStale, smVars, dmLoading, dmCalls, dmInFlight, dmClosure,
                   backendDeps>>

\* the fetches while a service is edited: the same services, their content renewed
EditSnapshots == {Snapshot({1, 2, 3}, v, {1, 2}) : v \in 0..MaxVersion}

NextService ==
    \/ \E data \in EditSnapshots : Refresh(data)
    \/ \E i \in DOMAIN nodes : ClickNode(i)
    \/ \E i \in DOMAIN nodes : ContextEdit(i)
    \/ CreateServiceClick
    \/ \E f \in TypedFields, v \in TypedValues : TypeField(f, v)
    \/ ServiceModalSubmit
    \/ ServiceModalSubmitBlocked
    \/ ServiceModalResolve
    \/ ServiceModalReject
    \/ ServiceModalClose

SpecService == Init /\ [][NextService]_vars

(***************************************************************************)
(* DependencyManager.                                                      *)
(***************************************************************************)
\* the checkboxes: availableServices.filter((s) => s.id !== service.id)
ToggleTargets(data, svc) ==
    {data.services[i].id : i \in DOMAIN data.services} \ {svc.id}

\* toggleDependency(serviceId)
toggleDependency(prev, serviceId) ==
    IF Includes(prev, serviceId) THEN FilterOut(prev, {serviceId})
    ELSE Append(prev, serviceId)

Calls(op, source, targets) ==
    [i \in DOMAIN targets |-> [op |-> op, source |-> source, target |-> targets[i]]]

\* the calls of handleSubmit's two loops, in the order it makes them
SubmitCalls(svc, existing, selected) ==
    LET removedDependencies == FilterOut(existing, Range(selected))
        newDependencies == FilterOut(selected, Range(existing))
    IN Calls("deleteDependency", svc.id, removedDependencies)
       \o Calls("createDependency", svc.id, newDependencies)

\* the calls made all at once (Promise.all over the loops)
AwaitedAll(calls) == Len(calls)

\* each call is awaited before the next is made: how many of `calls` are
\* made when the loop (re)starts
Awaited(calls) == IF calls = <<>> THEN 0 ELSE 1

\* what handleSubmit does once a call has rejected
CallRejected(call) == <<"console.error", "showErrorToast", "setIsLoading(false)">>

\* what handleSubmit does once its last call has resolved
CallsResolved ==
    <<"showSuccessToast", "onSuccess", "refetchTopology", "onClose", "setIsLoading(false)">>

\* the backend after it has served `call`
Served(deps, call) ==
    IF call.op = "deleteDependency" THEN deps \ {<<call.source, call.target>>}
    ELSE deps \cup {<<call.source, call.target>>}

DependencyManagerToggle(id) ==
    /\ isDependencyModalOpen
    /\ selectedService # NullService
    /\ ~dmLoading
    /\ id \in ToggleTargets(topologyData, selectedService)
    /\ selectedDependencies' = toggleDependency(selectedDependencies, id)
    /\ handler' = Ran("toggleDependency", id)
    /\ effects' = <<"setSelectedDependencies">>
    /\ UNCHANGED <<mounted, mapVars, shellVars, smVars, dmLoading, dmCalls, dmInFlight,
                   dmClosure, backendDeps>>

\* handleSubmit up to its first await, or to its end when it has no call to make
DependencyManagerSubmit ==
    LET calls == SubmitCalls(selectedService,
                             existingDependencies(topologyData.dependencies, selectedService),
                             selectedDependencies)
        n == Awaited(calls)
    IN /\ isDependencyModalOpen
       /\ selectedService # NullService
       /\ ~SubmitDisabled(dmLoading)
       /\ dmInFlight' = dmInFlight \cup {calls[i] : i \in 1..n}
       /\ dmCalls' = SubSeq(calls, n + 1, Len(calls))
       /\ dmClosure' =
             IF calls = <<>> THEN NoClosure
             ELSE [existing |-> existingDependencies(topologyData.dependencies,
                                                     selectedService),
                   selected |-> selectedDependencies]
       /\ dmLoading' = (calls # <<>>)
       /\ isDependencyModalOpen' = (calls # <<>>)
       /\ selectedDependencies' =
             IF calls # <<>> THEN selectedDependencies
             ELSE DependenciesAfterRender(topologyData, selectedService)
       /\ handler' = Ran("DependencyManager.handleSubmit", selectedService.id)
       /\ effects' = <<"setIsLoading(true)">>
                      \o (IF calls = <<>> THEN CallsResolved
                          ELSE [i \in 1..n |-> calls[i].op])
       /\ UNCHANGED <<mounted, mapVars, isServiceModalOpen, selectedService,
                      selectedServiceStale, smVars, backendDeps>>

\* the awaited call resolves: the loop goes on, or the try block ends
DependencyManagerCallResolve(call) ==
    LET n == IF dmInFlight = {call} THEN Awaited(dmCalls) ELSE 0
        done == dmInFlight = {call} /\ dmCalls = <<>>
    IN /\ call \in dmInFlight
       /\ backendDeps' = Served(backendDeps, call)
       /\ dmInFlight' = (dmInFlight \ {call}) \cup {dmCalls[i] : i \in 1..n}
       /\ dmCalls' = SubSeq(dmCalls, n + 1, Len(dmCalls))
       /\ dmLoading' = (dmLoading /\ ~done)
       /\ dmClosure' = IF done THEN NoClosure ELSE dmClosure
       /\ isDependencyModalOpen' = (isDependencyModalOpen /\ ~done)
       /\ selectedDependencies' =
             IF done THEN DependenciesAfterRender(topologyData, selectedService)
             ELSE selectedDependencies
       /\ handler' = Ran("DependencyManager.resolved", call.target)
       /\ effects' = IF done THEN CallsResolved ELSE [i \in 1..n |-> dmCalls[i].op]
       /\ UNCHANGED <<mounted, mapVars, isServiceModalOpen, selectedService,
                      selectedServiceStale, smVars>>

\* the awaited call rejects: catch, then finally; the loops are left
DependencyManagerCallReject(call) ==
    /\ call \in dmInFlight
    /\ dmInFlight' = dmInFlight \ {call}
    /\ dmCalls' = <<>>
    /\ dmClosure' = NoClosure
    /\ dmLoading' = (dmLoading /\ ~Includes(CallRejected(call), "setIsLoading(false)"))
    /\ isDependencyModalOpen' =
          (isDependencyModalOpen /\ ~Includes(CallRejected(call), "onClose"))
    /\ handler' = Ran("DependencyManager.rejected", call.target)
    /\ effects' = CallRejected(call)
    /\ UNCHANGED <<mounted, mapVars, isServiceModalOpen, selectedService,
                   selectedServiceStale, smVars, selectedDependencies, backendDeps>>

\* Cancel, or the dialog's onOpenChange: onClose
DependencyManagerClose ==
    /\ isDependencyModalOpen
    /\ selectedService # NullService
    /\ isDependencyModalOpen' = FALSE
    /\ selectedDependencies' = DependenciesAfterRender(topologyData, selectedService)
    /\ handler' = Ran("DependencyManager.onClose", "")
    /\ effects' = <<"setIsDependencyModalOpen">>
    /\ UNCHANGED <<mounted, mapVars, isServiceModalOpen, selectedService,
                   selectedServiceStale, smVars, dmLoading, dmCalls, dmInFlight, dmClosure,
                   backendDeps>>

\* every (source id, target id) the backend may hold, in the order it lists them
AllPairs ==
    << <<"1", "2">>, <<"1", "3">>, <<"2", "1">>, <<"2", "3">>, <<"3", "1">>, <<"3", "2">>,
       <<"app1", "1">>, <<"app1", "2">>, <<"app1", "3">>,
       <<"app2", "1">>, <<"app2", "2">>, <<"app2", "3">> >>

RECURSIVE Listed(_, _)
Listed(pairs, held) ==
    IF pairs = <<>> THEN <<>>
    ELSE (IF Head(pairs) \in held
          THEN <<[source |-> Head(pairs)[1], target |-> Head(pairs)[2]]>> ELSE <<>>)
         \o Listed(Tail(pairs), held)

\* the fetch refetchTopology started completes with what the backend holds
Refetch ==
    /\ topologyData.loaded
    /\ Refresh([topologyData EXCEPT !.dependencies = Listed(AllPairs, backendDeps)])

\* the first fetch while dependencies are managed
DepsSnapshots == {Snapshot({1, 2, 3}, 0, {1, 2})}

\* the nodes whose menu the user opens while dependencies are managed: an
\* editable service and one a provider manages
ManagedNodes == {"s1", "s2"}

NextDeps ==
    \/ \E data \in DepsSnapshots : ~topologyData.loaded /\ Refresh(data)
    \/ Refetch
    \/ \E i \in DOMAIN nodes : nodes[i].id \in ManagedNodes /\ ClickNode(i)
    \/ \E i \in DOMAIN nodes : ContextManageDependencies(i)
    \/ \E id \in {ServiceId(i) : i \in ServiceNumbers} : DependencyManagerToggle(id)
    \/ DependencyManagerSubmit
    \/ \E call \in dmInFlight : DependencyManagerCallResolve(call)
    \/ \E call \in dmInFlight : DependencyManagerCallReject(call)
    \/ DependencyManagerClose

SpecDeps == Init /\ [][NextDeps]_vars

(***************************************************************************)
(* The reconciler under refreshes and drags.                               *)
(***************************************************************************)
NextReconcile ==
    \/ \E data \in Snapshots : Refresh(data)
    \/ \E i \in DOMAIN nodes, p \in 0..MaxDrag : DragNode(i, p)

SpecReconcile == Init /\ [][NextReconcile]_vars

(***************************************************************************)
(* Selection, filter and viewport, over refreshes that change the          *)
(* membership, the content and the dependencies.                           *)
(***************************************************************************)
ViewSnapshots ==
    {Snapshot({1, 2}, 0, {2}), Snapshot({1, 2, 3}, 0, {1, 2}),
     Snapshot({1, 2, 3}, MaxVersion, {1, 2})}

NextView ==
    \/ \E data \in ViewSnapshots : Refresh(data)
    \/ \E id \in ObjectIds : SelectObject(id)
    \/ \E b \in BOOLEAN : SetVisible(b)
    \/ TimerFire
    \/ \E appIds \in SUBSET ApplicationIds : SetSelectedApplications(appIds)

SpecView == Init /\ [][NextView]_vars

(***************************************************************************)
(* Both modals with the view that owns them, up to and after its teardown. *)
(* No effect of TopologyMap returns a cleanup function and no handleSubmit *)
(* checks that its component is still mounted: a timer that was set and a  *)
(* request that was sent complete after the unmount as they do before it.  *)
(***************************************************************************)
\* TopologyMap unmounts (the route changes, or it renders its loading or
\* error view in place of the map and the modals)
Teardown ==
    /\ mounted
    /\ mounted' = FALSE
    /\ handler' = Ran("unmount", "")
    /\ effects' = <<>>
    /\ UNCHANGED <<mapVars, shellVars, smVars, dmVars>>

\* the node that is clicked and searched for while the modals are used
SearchedIds == {"s1"}

\* the services whose checkboxes are toggled while the modals are used
ToggledIds == {"2", "3"}

NextModals ==
    \/ \E data \in DepsSnapshots : mounted /\ ~topologyData.loaded /\ Refresh(data)
    \/ \E i \in DOMAIN nodes : mounted /\ nodes[i].id \in SearchedIds /\ ClickNode(i)
    \/ \E i \in DOMAIN nodes : mounted /\ ContextManageDependencies(i)
    \/ mounted /\ ServiceModalSubmit
    \/ ServiceModalResolve
    \/ ServiceModalReject
    \/ mounted /\ ServiceModalClose
    \/ \E id \in ToggledIds : mounted /\ DependencyManagerToggle(id)
    \/ mounted /\ DependencyManagerSubmit
    \/ \E call \in dmInFlight : DependencyManagerCallResolve(call)
    \/ \E call \in dmInFlight : DependencyManagerCallReject(call)
    \/ mounted /\ DependencyManagerClose
    \/ \E id \in SearchedIds : mounted /\ SelectObject(id)
    \/ TimerFire
    \/ Teardown

SpecModals == Init /\ [][NextModals]_vars

(***************************************************************************)
(* The whole program.                                                      *)
(***************************************************************************)
Next == NextReconcile \/ NextView \/ NextService \/ NextDeps \/ NextModals

Spec == Init /\ [][Next]_vars

(***************************************************************************)
(* Properties.                                                             *)
(***************************************************************************)
BuiltNodes(data) == getNodesAndEdgesFromTopologyData(data).nodes

RefreshRan == handler'.name = "createAndSetLayoutedNodesAndEdges"

\* the refresh now running builds the node ids of the reference set
StableRefresh ==
    /\ RefreshRan
    /\ previousNodesIds # {}
    /\ NodeIdSet(BuiltNodes(topologyData')) = previousNodesIds

\* C1: on a refresh whose newly built node ids equal the non-empty reference
\* set, every node on screen keeps the position it had (dragged or not) and
\* takes the content of the newly built node with its id; the layout is not
\* applied to the node state.
C1_StableRefreshKeepsPositions ==
    [][StableRefresh =>
          \A i \in DOMAIN nodes :
             \E j \in DOMAIN nodes' :
                /\ nodes'[j].id = nodes[i].id
                /\ nodes'[j].position = nodes[i].position
                /\ nodes'[j].data = FindNode(BuiltNodes(topologyData'), nodes[i].id).data]_vars

\* the selection effect has run, with the map visible, on the id of the
\* application `app` whose member services are all rendered
ApplicationSelected(app) ==
    /\ handler = Ran("selectionEffect", app.id)
    /\ isVisible
    /\ Range(app.services) \subseteq NodeIdSet(nodes)

\* C2: once the selection of a known application whose member services are
\* rendered has been processed, exactly the member services are selected;
\* every other node, the application's own node included, is not.
C2_ApplicationSelectionHighlightsMembers ==
    \A a \in DOMAIN applications :
        ApplicationSelected(applications[a]) =>
            \A i \in DOMAIN nodes :
                nodes[i].selected <=> nodes[i].id \in Range(applications[a].services)

\* C3: no handler calls fitView in the run in which it has called setNodes
\* or setEdges: every fit runs in a later tick than the state update before it.
C3_FitViewDeferred ==
    \A i, j \in DOMAIN effects :
        (i < j /\ effects[i] \in {"setNodes", "setEdges"}) => effects[j] # "fitView"

\* C4: when the awaited createService/updateService rejects, an error
\* notification is shown, neither onSuccess nor onClose is called, the modal
\* and the form data stay as they are, and the loading flag is false again.
C4_FailedSubmitKeepsModal ==
    [][handler'.name = "ServiceModal.rejected" =>
          /\ Includes(effects', "showErrorToast")
          /\ ~Includes(effects', "onSuccess")
          /\ ~Includes(effects', "onClose")
          /\ isServiceModalOpen' = isServiceModalOpen
          /\ formData' = formData
          /\ smLoading' = FALSE]_vars

C4_Witness ==
    /\ handler.name = "ServiceModal.rejected"
    /\ isServiceModalOpen
    /\ ~smLoading
    /\ formData.service = "typed"
    /\ formData.display_name = "typed"

Requests == {"createService", "updateService"}

\* the calls among `calls` that are in `kinds`, in order
RECURSIVE Only(_, _)
Only(calls, kinds) ==
    IF calls = <<>> THEN <<>>
    ELSE (IF Head(calls) \in kinds THEN <<Head(calls)>> ELSE <<>>) \o Only(Tail(calls), kinds)

\* C5: a submit issues exactly one request, updateService with the given
\* service's id and the form data when the modal was given a service and
\* createService with the form data otherwise, and no request is issued but by
\* a submit; when the request resolves, the success notification is shown,
\* then onSuccess is called once, then onClose is called once.
C5_SubmitIssuesOneRequest ==
    [][/\ handler'.name = "ServiceModal.handleSubmit" =>
            /\ Only(effects', Requests) = <<smRequest'.op>>
            /\ smRequest = NoRequest
            /\ smRequest'.data = formData
            /\ IF selectedService # NullService
               THEN smRequest'.op = "updateService" /\ smRequest'.id = selectedService.id
               ELSE smRequest'.op = "createService"
       /\ handler'.name # "ServiceModal.handleSubmit" =>
            /\ Only(effects', Requests) = <<>>
            /\ smRequest' \in {smRequest, NoRequest}
       /\ handler'.name = "ServiceModal.resolved" =>
            /\ Only(effects', {"showSuccessToast", "showErrorToast", "onSuccess", "onClose"})
                 = <<"showSuccessToast", "onSuccess", "onClose">>
            /\ ~isServiceModalOpen']_vars

C5_Witness ==
    /\ handler = Ran("ServiceModal.resolved", "updateService")
    /\ selectedService # NullService
    /\ ~isServiceModalOpen
    /\ ~smLoading

DependencyCalls == {"deleteDependency", "createDependency"}

\* C6: the deleteDependency and createDependency calls of a submit are made
\* one at a time, the removals before the additions; when a call rejects,
\* what the earlier calls did to the backend stays (no call is made to undo
\* it), the calls after it are never made, an error notification is shown
\* and neither onSuccess nor onClose is called.
C6_SequentialCallsNoRollback ==
    [][/\ Cardinality(dmInFlight') <= 1
       /\ \A c \in dmInFlight' \ dmInFlight : dmInFlight \cap dmInFlight' = {}
       /\ \A c \in dmInFlight', i \in DOMAIN dmCalls' :
              c.op = "createDependency" => dmCalls'[i].op = "createDependency"
       /\ \A i, j \in DOMAIN dmCalls' :
              (i < j /\ dmCalls'[i].op = "createDependency")
                  => dmCalls'[j].op = "createDependency"
       /\ handler'.name = "DependencyManager.resolved" =>
              \E c \in dmInFlight :
                  /\ c.op = "deleteDependency" => <<c.source, c.target>> \notin backendDeps'
                  /\ c.op = "createDependency" => <<c.source, c.target>> \in backendDeps'
       /\ handler'.name = "DependencyManager.rejected" =>
              /\ backendDeps' = backendDeps
              /\ dmInFlight' = {}
              /\ dmCalls' = <<>>
              /\ Only(effects', DependencyCalls) = <<>>
              /\ Includes(effects', "showErrorToast")
              /\ ~Includes(effects', "onSuccess")
              /\ ~Includes(effects', "onClose")
              /\ isDependencyModalOpen' = isDependencyModalOpen]_vars

\* the removal of 1 -> 2 was served, the addition of 1 -> 3 after it was
\* rejected, and the backend is left without either
C6_Witness ==
    /\ handler = Ran("DependencyManager.rejected", "3")
    /\ selectedService.id = "1"
    /\ selectedDependencies = <<"3">>
    /\ existingDependencies(topologyData.dependencies, selectedService) = <<"2">>
    /\ <<"1", "2">> \notin backendDeps
    /\ <<"1", "3">> \notin backendDeps
    /\ isDependencyModalOpen

\* C7: once the filter has run on an empty list of selected applications,
\* no node and no edge of the graph state is hidden.
C7_EmptyFilterShowsAll ==
    (handler.name = "watchSelectedApplications" /\ selectedApplicationIds = {}) =>
        /\ \A i \in DOMAIN nodes : ~nodes[i].hidden
        /\ \A i \in DOMAIN edges : ~edges[i].hidden

C7_Witness ==
    /\ handler.name = "watchSelectedApplications"
    /\ selectedApplicationIds = {}
    /\ Len(nodes) > Len(applications)
    /\ edges # <<>>

FilterRan == handler'.name = "watchSelectedApplications" /\ selectedApplicationIds' # {}

\* some node with this id is hidden
HiddenNode(nds, id) == \E i \in DOMAIN nds : nds[i].id = id /\ nds[i].hidden

\* C8, as stated: after a filter by a non-empty selection with member union
\* U, a node is hidden iff it is a service node outside U, an edge is hidden
\* iff its source or its target is a hidden node, and application nodes keep
\* their hidden flag.
C8_EdgeHiddenIffEndpointHidden ==
    [][FilterRan =>
          LET U == selectedServiceNodesIds(selectedApplicationIds')
          IN /\ \A i \in DOMAIN nodes' :
                   nodes'[i].hidden <=> (nodes'[i].type = "service" /\ nodes'[i].id \notin U)
             /\ \A i \in DOMAIN edges' :
                   edges'[i].hidden <=> (HiddenNode(nodes', edges'[i].source)
                                         \/ HiddenNode(nodes', edges'[i].target))
             /\ \A i \in DOMAIN nodes' :
                   nodes'[i].type = "application" => nodes'[i].hidden = nodes[i].hidden]_vars

\* C8, amended: after a filter by a non-empty selection with member union U,
\* a node is hidden iff it is a service node outside U, an edge is hidden iff
\* its source or its target is not in U, and application nodes keep their
\* hidden flag.
C8_EdgeHiddenIffEndpointOutside ==
    [][FilterRan =>
          LET U == selectedServiceNodesIds(selectedApplicationIds')
          IN /\ \A i \in DOMAIN nodes' :
                   nodes'[i].hidden <=> (nodes'[i].type = "service" /\ nodes'[i].id \notin U)
             /\ \A i \in DOMAIN edges' :
                   edges'[i].hidden <=> (edges'[i].source \notin U \/ edges'[i].target \notin U)
             /\ \A i \in DOMAIN nodes' :
                   nodes'[i].type = "application" => nodes'[i].hidden = nodes[i].hidden]_vars

\* the filter by application app1 has run over a graph with the edge
\* s2 -> s3 whose target is not rendered
C8_Witness ==
    /\ handler.name = "watchSelectedApplications"
    /\ selectedApplicationIds = {"app1"}
    /\ \E i \in DOMAIN edges : edges[i].hidden /\ ~HasNode(nodes, edges[i].target)
    /\ \E i \in DOMAIN nodes : nodes[i].type = "service" /\ ~nodes[i].hidden

\* the edit of the node with this id is one handleEditService refuses
RefusedEdit(id) == HasNode(nodes, id) /\ ~FindNode(nodes, id).data.is_editable

\* C9: handleEditService on a service that is not editable shows an error
\* notification and changes neither the selected service nor the service
\* modal, its form and its request, so that no create/update call follows
\* from it; a click on such a node never reaches handleEditService and
\* changes none of them either.
C9_NonEditableEditRejected ==
    [][/\ (handler'.name = "handleEditService" /\ RefusedEdit(handler'.id)) =>
            /\ effects' = <<"showErrorToast">>
            /\ UNCHANGED <<selectedService, isServiceModalOpen, formData, smLoading,
                           smRequest>>
       /\ (handler'.name = "onNodeClick" /\ RefusedEdit(handler'.id)) =>
            /\ Only(effects', Requests) = <<>>
            /\ UNCHANGED <<selectedService, isServiceModalOpen, formData, smLoading,
                           smRequest>>]_vars

C9_Witness ==
    /\ handler = Ran("handleEditService", "s2")
    /\ effects = <<"showErrorToast">>
    /\ ~isServiceModalOpen

\* the service with this id is editable
EditableId(id) ==
    \E i \in DOMAIN topologyData.services :
        topologyData.services[i].id = id /\ topologyData.services[i].is_editable

\* C10: the dependency modal is never open for a service that is not
\* editable, and no createDependency/deleteDependency call is made for one.
C10_ManageDependenciesGated ==
    /\ (isDependencyModalOpen /\ selectedService # NullService) => selectedService.is_editable
    /\ \A c \in dmInFlight : EditableId(c.source)

\* the submit button of the create form is pressed while `service` is empty
BlankCreateSubmit ==
    /\ isServiceModalOpen
    /\ selectedService = NullService
    /\ Blank(formData.service)
    /\ handler'.name \in {"ServiceModal.handleSubmit", "ServiceModal.reportValidity"}

\* C11: in create mode, pressing submit while the service field is empty
\* (display_name filled or not) does not run handleSubmit: no createService
\* request is issued, onSuccess and onClose are not called, and the modal
\* stays open with its form as it was.
C11_BlankServiceNotSubmitted ==
    [][BlankCreateSubmit =>
          /\ handler'.name = "ServiceModal.reportValidity"
          /\ smRequest' = NoRequest
          /\ Only(effects', Requests \cup {"onSuccess", "onClose"}) = <<>>
          /\ isServiceModalOpen'
          /\ formData' = formData]_vars

C11_Witness ==
    /\ handler = Ran("ServiceModal.reportValidity", NullService.id)
    /\ isServiceModalOpen
    /\ selectedService = NullService
    /\ formData.service = ""
    /\ formData.display_name = "typed"
    /\ smRequest = NoRequest

LateCalls == {"setIsLoading(false)", "onSuccess", "onClose", "fitView"}

\* C12: once the view is torn down, no run of a handler it started earlier
\* (the completion of a submit of either modal, a viewport-fit timer) calls
\* setIsLoading, onSuccess, onClose or fitView.
C12_NothingRunsAfterTeardown ==
    ~mounted => Only(effects, LateCalls) = <<>>

\* C13: on a refresh whose newly built node ids equal the non-empty reference
\* set, every node on screen keeps its hidden flag and its selected flag.
C13_StableRefreshKeepsFlags ==
    [][StableRefresh =>
          \A i \in DOMAIN nodes :
             \E j \in DOMAIN nodes' :
                /\ nodes'[j].id = nodes[i].id
                /\ nodes'[j].hidden = nodes[i].hidden
                /\ nodes'[j].selected = nodes[i].selected]_vars

\* what the builder and the layout make of `data`
Built(data) == getNodesAndEdgesFromTopologyData(data)

Layouted(data) == getLayoutedElements(Built(data).nodes, Built(data).edges)

\* C14: after every refresh the reference set is the id set B of the nodes
\* built in it and the node ids of the graph state are exactly B; when B
\* differs from the reference set before the refresh (the first refresh
\* included), the node state and the edge state are the layout output for the
\* newly built collections.
C14_ReferenceSetFollowsBuild ==
    [][RefreshRan =>
          LET B == NodeIdSet(Built(topologyData').nodes)
          IN /\ previousNodesIds' = B
             /\ NodeIdSet(nodes') = B
             /\ B # previousNodesIds =>
                   /\ nodes' = Layouted(topologyData').nodes
                   /\ edges' = Layouted(topologyData').edges]_vars

\* a refresh has replaced the graph by that of services s1 and s3, taking
\* the branch of a changed id set
C14_Witness ==
    /\ handler.name = "createAndSetLayoutedNodesAndEdges"
    /\ effects = <<"setNodes", "setEdges">>
    /\ previousNodesIds = {"app1", "app2", "s1", "s3"}
    /\ NodeIdSet(nodes) = previousNodesIds
    /\ \E i \in DOMAIN nodes : nodes[i].id = "s3" /\ nodes[i].data.display_name = DisplayName(1)

\* the timers fitViewToServices has set
FitTimers(ts) == {i \in DOMAIN ts : ts[i].origin = "fitViewToServices"}

\* the selection effect now running has nothing to select: the map is not
\* visible, or its id is neither a rendered node nor a known application
SelectionMisses ==
    /\ handler'.name = "selectionEffect"
    /\ \/ ~isVisible'
       \/ ~HasNode(nodes, handler'.id) /\ ~applicationMapHas(handler'.id)

\* C15: a selection of an id that is neither a rendered node nor a known
\* application, and any selection made while the map is not visible, leaves
\* every node (its selected flag included) as it was, sets no timer for a
\* viewport fit and fits nothing.
C15_UnknownSelectionIsNoOp ==
    [][SelectionMisses =>
          /\ nodes' = nodes
          /\ Cardinality(FitTimers(timers')) = Cardinality(FitTimers(timers))
          /\ ~Includes(effects', "fitView")]_vars

\* an unknown id has been selected while node s1 was highlighted
C15_Witness ==
    /\ handler = Ran("selectionEffect", "ghost")
    /\ isVisible
    /\ selectedObjectId = "ghost"
    /\ \E i \in DOMAIN nodes : nodes[i].id = "s1" /\ nodes[i].selected
    /\ timers = <<>>

\* the service with node id k and every dependency record naming it are
\* gone from `data`
ServiceGone(data, k) ==
    /\ \A i \in DOMAIN data.services : data.services[i].service # k
    /\ \A i \in DOMAIN data.dependencies :
          KeyOfId(data.dependencies[i].source) # k /\ KeyOfId(data.dependencies[i].target) # k

\* C16: after every refresh, with the node ids unchanged or changed, the
\* edge state is exactly the edges built from the fetched data; no edge has
\* as source or target a service that is gone from the data together with
\* the dependency records naming it.
C16_EdgesRebuiltOnRefresh ==
    [][RefreshRan =>
          /\ edges' = Built(topologyData').edges
          /\ \A n \in ServiceNumbers :
                ServiceGone(topologyData', ServiceKey(n)) =>
                   \A i \in DOMAIN edges' :
                      edges'[i].source # ServiceKey(n) /\ edges'[i].target # ServiceKey(n)]_vars

\* a refresh with the node ids unchanged has left the graph of three
\* services without edges
C16_Witness ==
    /\ handler.name = "createAndSetLayoutedNodesAndEdges"
    /\ effects = <<"setEdges", "setNodes", "setNodes", "setEdges">>
    /\ Len(topologyData.services) = 3
    /\ topologyData.dependencies = <<>>
    /\ edges = <<>>

\* values of fetched services, which the user does not type
FetchedValues ==
    {ServiceKey(n) : n \in ServiceNumbers} \cup {DisplayName(v) : v \in 0..MaxVersion + 1}
    \cup {"staging"}

\* C17: when handleCreateService has opened the modal in create mode, the
\* form holds the initial defaults, whatever was edited, created, failed or
\* closed before; and no createService request carries a value of a fetched
\* service in its service, display_name or environment field.
C17_CreateFormHoldsDefaults ==
    /\ (handler.name = "handleCreateService" /\ isServiceModalOpen
            /\ selectedService = NullService)
          => formData = DefaultFormData
    /\ smRequest.op = "createService" =>
          /\ smRequest.data.service \notin FetchedValues
          /\ smRequest.data.display_name \notin FetchedValues
          /\ smRequest.data.environment \notin FetchedValues

\* a handleSubmit of DependencyManager has calls in flight or yet to make
DependencySubmitRunning(inFlight, calls) == inFlight # {} \/ calls # <<>>

TargetsOf(calls, op) == {c.target : c \in {d \in calls : d.op = op}}

\* the targets the backend holds for the service with id `source`
BackendTargets(deps, source) == {p[2] : p \in {q \in deps : q[1] = source}}

DependencySubmitStarts == handler'.name = "DependencyManager.handleSubmit"

\* a handleSubmit of DependencyManager ends with all its calls served
DependencySubmitSucceeds ==
    /\ handler'.name \in {"DependencyManager.handleSubmit", "DependencyManager.resolved"}
    /\ Includes(effects', "onSuccess")

\* C19: a submit with existing dependencies E and selected dependencies S
\* issues deleteDependency once for each id of E \ S, createDependency once
\* for each id of S \ E and nothing else, never with the service itself as
\* target; and when all its calls have succeeded, the backend's dependencies
\* of the service are exactly S.
C19_SubmitMakesBackendMatchSelection ==
    [][/\ DependencySubmitStarts =>
            LET E == Range(existingDependencies(topologyData.dependencies, selectedService))
                S == Range(selectedDependencies)
                made == dmInFlight' \cup Range(dmCalls')
            IN /\ TargetsOf(made, "deleteDependency") = E \ S
               /\ TargetsOf(made, "createDependency") = S \ E
               /\ Cardinality(dmInFlight') + Len(dmCalls')
                     = Cardinality(E \ S) + Cardinality(S \ E)
               /\ \A c \in made : c.source = selectedService.id /\ c.target # c.source
       /\ DependencySubmitSucceeds =>
            LET S == IF DependencySubmitStarts THEN Range(selectedDependencies)
                     ELSE Range(dmClosure.selected)
                source == IF DependencySubmitStarts THEN selectedService.id
                          ELSE (CHOOSE c \in dmInFlight : TRUE).source
            IN BackendTargets(backendDeps', source) = S]_vars

====
